---- MODULE Spec2Model ----
(***************************************************************************)
(* Model of the quadtree of leaflet-quadcluster (src/src/tree/tree.js,     *)
(* second closure: QuadTreeNode, QuadTree, QuadTreeFactory) and of the     *)
(* aggregation descriptor (TreeAggregate).                                 *)
(*                                                                         *)
(* Nodes live in an arena `mem` keyed by their path from the root (the     *)
(* sequence of slot indices); a reference to a node is such a key.  An     *)
(* optional value (null / undefined / a hole of a sparse array) is None,   *)
(* a present one is Some(v).                                               *)
(*                                                                         *)
(* Coordinates are integers in units of 1/Scale of a grid step, so that    *)
(* every midpoint computed down to depth MaxDepth is exact; gravity        *)
(* centers are exact fractions.  Floating-point rounding is not modelled.  *)
(***************************************************************************)
EXTENDS Integers, Sequences, FiniteSets, TLC

VARIABLES mem, thrown, op, arg, ret, calls, inserted, filtered

vars == <<mem, thrown, op, arg, ret, calls, inserted, filtered>>

(***************************************************************************)
(* Bounds of the model.                                                    *)
(***************************************************************************)
MaxDepth == 3
MaxPoints == 3

RECURSIVE Pow2(_)
Pow2(n) == IF n = 0 THEN 1 ELSE 2 * Pow2(n - 1)

Scale == Pow2(MaxDepth)

None == <<>>
Some(v) == <<v>>

(***************************************************************************)
(* Numbers: exact fractions for the divisions of computeGravityCenter.     *)
(* den = 0 stands for NaN (0/0).                                           *)
(***************************************************************************)
Abs(x) == IF x < 0 THEN -x ELSE x

RECURSIVE GCD(_, _)
GCD(a, b) == IF b = 0 THEN a ELSE GCD(b, a % b)

NaN == [num |-> 0, den |-> 0]

Frac(n, d) ==
    IF d = 0 THEN NaN
    ELSE LET g == GCD(Abs(n), Abs(d))
             s == IF d < 0 THEN -1 ELSE 1
         IN [num |-> s * (n \div g), den |-> s * (d \div g)]

Num(n) == [num |-> n, den |-> 1]

RatAdd(x, y) == Frac(x.num * y.den + y.num * x.den, x.den * y.den)

RatMul(x, y) == Frac(x.num * y.num, x.den * y.den)

RatLeq(x, y) == x.den # 0 /\ y.den # 0 /\ x.num * y.den <= y.num * x.den

(***************************************************************************)
(* Points and their accessors (the factory's default _lat and _lng).       *)
(***************************************************************************)
Pt(la, ln) == [lat |-> la * Scale, lng |-> ln * Scale]

Points == {Pt(0, 0), Pt(1, 1), Pt(2, 2), Pt(4, 4), Pt(3, 1)}

latAcc(d) == d.lat

lngAcc(d) == d.lng

Epsilon == 2 * Scale

(***************************************************************************)
(* L.latLngBounds and L.latLng as the tree uses them.                      *)
(***************************************************************************)
Min(a, b) == IF a < b THEN a ELSE b

Max(a, b) == IF a > b THEN a ELSE b

latLngBounds(sLat, sLng, eLat, eLng) ==
    [south |-> Min(sLat, eLat), west |-> Min(sLng, eLng),
     north |-> Max(sLat, eLat), east |-> Max(sLng, eLng)]

latLng(cLat, cLng) == [lat |-> cLat, lng |-> cLng]

intersects(b, o) ==
    /\ o.north >= b.south /\ o.south <= b.north
    /\ o.east >= b.west /\ o.west <= b.east

contains(b, c) ==
    /\ RatLeq(Num(b.south), c.lat) /\ RatLeq(c.lat, Num(b.north))
    /\ RatLeq(Num(b.west), c.lng) /\ RatLeq(c.lng, Num(b.east))

(***************************************************************************)
(* QuadTreeNode.prototype.computeGravityCenter                             *)
(***************************************************************************)
RECURSIVE SumLat(_), SumLng(_)
SumLat(s) == IF s = <<>> THEN 0 ELSE latAcc(Head(s)) + SumLat(Tail(s))

SumLng(s) == IF s = <<>> THEN 0 ELSE lngAcc(Head(s)) + SumLng(Tail(s))

leafGravity(node) ==
    LET tPoints == Len(node.activePoints)
    IN [cLat |-> IF tPoints > 0 THEN Frac(SumLat(node.activePoints), tPoints) ELSE Num(0),
        cLng |-> IF tPoints > 0 THEN Frac(SumLng(node.activePoints), tPoints) ELSE Num(0),
        tPoints |-> tPoints]

movingAverage_unweighted(acc, child) ==
    LET nPoints == child.mass
        cWgt == IF acc.tPoints = 0 THEN Num(0) ELSE Frac(1, 2)
        nWgt == IF acc.tPoints = 0 THEN Num(1) ELSE Frac(1, 2)
    IN [cLat |-> RatAdd(RatMul(acc.cLat, cWgt), RatMul(child.center.lat, nWgt)),
        cLng |-> RatAdd(RatMul(acc.cLng, cWgt), RatMul(child.center.lng, nWgt)),
        tPoints |-> acc.tPoints + nPoints]

movingAverage(acc, child) ==
    LET nPoints == child.mass
        cWgt == Frac(acc.tPoints, acc.tPoints + nPoints)
        nWgt == Frac(nPoints, acc.tPoints + nPoints)
    IN [cLat |-> RatAdd(RatMul(acc.cLat, cWgt), RatMul(child.center.lat, nWgt)),
        cLng |-> RatAdd(RatMul(acc.cLng, cWgt), RatMul(child.center.lng, nWgt)),
        tPoints |-> acc.tPoints + nPoints]

setGravity_accumulate(node, acc) ==
    [node EXCEPT !.center = latLng(acc.cLat, acc.cLng),
                 !.mass = node.mass + acc.tPoints,
                 !.active = node.mass + acc.tPoints > 0]

setGravity_activeGe(node, acc) ==
    [node EXCEPT !.center = latLng(acc.cLat, acc.cLng),
                 !.mass = acc.tPoints,
                 !.active = acc.tPoints >= 0]

setGravity(node, acc) ==
    [node EXCEPT !.center = latLng(acc.cLat, acc.cLng),
                 !.mass = acc.tPoints,
                 !.active = acc.tPoints > 0]

RECURSIVE computeGravityCenter(_, _, _), gravityOfChildren(_, _, _, _, _)
gravityOfChildren(m, id, i, acc, computeChild) ==
    IF i > 3 THEN [m |-> m, acc |-> acc]
    ELSE IF m[id].nodes[i] = None
         THEN gravityOfChildren(m, id, i + 1, acc, computeChild)
         ELSE LET c == m[id].nodes[i][1]
                  m1 == IF computeChild THEN computeGravityCenter(m, c, computeChild) ELSE m
              IN IF ~m1[c].active
                 THEN gravityOfChildren(m1, id, i + 1, acc, computeChild)
                 ELSE gravityOfChildren(m1, id, i + 1, movingAverage(acc, m1[c]), computeChild)

computeGravityCenter(m, id, computeChild) ==
    IF m[id].leaf
    THEN [m EXCEPT ![id] = setGravity(m[id], leafGravity(m[id]))]
    ELSE LET r == gravityOfChildren(m, id, 0,
                      [cLat |-> Num(0), cLng |-> Num(0), tPoints |-> 0], computeChild)
         IN [r.m EXCEPT ![id] = setGravity(r.m[id], r.acc)]

(***************************************************************************)
(* QuadTreeNode constructor                                                *)
(***************************************************************************)
NoChildren == [i \in 0..3 |-> None]

QuadTreeNode(m, id, parent, bounds, point) ==
    LET raw == [bounds |-> bounds, parent |-> parent,
                active |-> TRUE, leaf |-> TRUE,
                nodes |-> NoChildren,
                points |-> point, activePoints |-> point,
                lat |-> IF point = None THEN None ELSE Some(latAcc(point[1])),
                lng |-> IF point = None THEN None ELSE Some(lngAcc(point[1])),
                center |-> latLng(Num(0), Num(0)), mass |-> 0]
    IN computeGravityCenter((id :> raw) @@ m, id, FALSE)

(***************************************************************************)
(* Insertion: QuadTreeNode.prototype.add, addToChild, convertToInternal.   *)
(* They work on h = [mem, thrown]; once thrown is set the exception        *)
(* propagates and no further statement runs.  A recursion that would pass  *)
(* MaxDepth ends as the call stack overflow it is in the program.          *)
(***************************************************************************)
StackOverflow == "RangeError: Maximum call stack size exceeded"

childIndex_tieUp(bounds, lat, lng) ==
    LET cLat == (bounds.south + bounds.north) \div 2
        cLng == (bounds.west + bounds.east) \div 2
    IN (IF lat >= cLat THEN 2 ELSE 0) + (IF lng >= cLng THEN 1 ELSE 0)

childIndex(bounds, lat, lng) ==
    LET cLat == (bounds.south + bounds.north) \div 2
        cLng == (bounds.west + bounds.east) \div 2
    IN (IF lat > cLat THEN 2 ELSE 0) + (IF lng > cLng THEN 1 ELSE 0)

childBounds(bounds, lat, lng) ==
    LET cLat == (bounds.south + bounds.north) \div 2
        cLng == (bounds.west + bounds.east) \div 2
        sLat == IF lat > cLat THEN cLat ELSE bounds.south
        eLat == IF lat > cLat THEN bounds.north ELSE cLat
        sLng == IF lng > cLng THEN cLng ELSE bounds.west
        eLng == IF lng > cLng THEN bounds.east ELSE cLng
    IN latLngBounds(sLat, sLng, eLat, eLng)

RECURSIVE add(_, _, _), addToChild(_, _, _, _, _), convertToInternal(_, _),
          convertPoints(_, _, _), convertPoints_skipLast(_, _, _),
          convertPoints_ownCoordinates(_, _, _), add_eitherAxis(_, _, _),
          add_atMostEpsilon(_, _, _)

addToChild(h, id, point, lat, lng) ==
    IF h.thrown # "" THEN h
    ELSE IF Len(id) >= MaxDepth THEN [h EXCEPT !.thrown = StackOverflow]
    ELSE LET node == h.mem[id]
             index == childIndex(node.bounds, lat, lng)
             cid == Append(id, index)
         IN IF node.nodes[index] = None
            THEN LET m1 == QuadTreeNode(h.mem, cid, Some(id),
                                        childBounds(node.bounds, lat, lng), Some(point))
                 IN [h EXCEPT !.mem = [m1 EXCEPT ![id].nodes[index] = Some(cid)]]
            ELSE add(h, cid, point)

convertPoints_skipLast(h, id, i) ==
    IF h.thrown # "" \/ i >= Len(h.mem[id].points) THEN h
    ELSE convertPoints_skipLast(addToChild(h, id, h.mem[id].points[i],
                                           h.mem[id].lat[1], h.mem[id].lng[1]), id, i + 1)

convertPoints_ownCoordinates(h, id, i) ==
    IF h.thrown # "" \/ i > Len(h.mem[id].points) THEN h
    ELSE convertPoints_ownCoordinates(
             addToChild(h, id, h.mem[id].points[i],
                        latAcc(h.mem[id].points[i]), lngAcc(h.mem[id].points[i])),
             id, i + 1)

convertPoints(h, id, i) ==
    IF h.thrown # "" \/ i > Len(h.mem[id].points) THEN h
    ELSE convertPoints(addToChild(h, id, h.mem[id].points[i],
                                  h.mem[id].lat[1], h.mem[id].lng[1]), id, i + 1)

convertToInternal_markFirst(h, id) ==
    LET h0 == [h EXCEPT !.mem[id].leaf = FALSE]
    IN IF h.thrown # "" THEN h
       ELSE IF ~h0.mem[id].leaf THEN [h0 EXCEPT !.thrown = "Node is already internal"]
       ELSE h0

convertToInternal_keepPoints(h, id) ==
    IF h.thrown # "" THEN h
    ELSE IF ~h.mem[id].leaf THEN [h EXCEPT !.thrown = "Node is already internal"]
    ELSE IF Len(h.mem[id].points) = 0
         THEN [h EXCEPT !.thrown = "Converting node with no points to internal"]
    ELSE LET h1 == convertPoints([h EXCEPT !.mem[id].leaf = FALSE], id, 1)
         IN IF h1.thrown # "" THEN h1
            ELSE [h1 EXCEPT !.mem[id].lat = None,
                            !.mem[id].lng = None]

convertToInternal(h, id) ==
    IF h.thrown # "" THEN h
    ELSE IF ~h.mem[id].leaf THEN [h EXCEPT !.thrown = "Node is already internal"]
    ELSE IF Len(h.mem[id].points) = 0
         THEN [h EXCEPT !.thrown = "Converting node with no points to internal"]
    ELSE LET h1 == convertPoints([h EXCEPT !.mem[id].leaf = FALSE], id, 1)
         IN IF h1.thrown # "" THEN h1
            ELSE [h1 EXCEPT !.mem[id].points = <<>>,
                            !.mem[id].activePoints = <<>>,
                            !.mem[id].lat = None,
                            !.mem[id].lng = None]

add_eitherAxis(h, id, point) ==
    LET node == h.mem[id]
        lat == latAcc(point)
        lng == lngAcc(point)
    IN IF h.thrown # "" THEN h
       ELSE IF ~node.leaf THEN addToChild(h, id, point, lat, lng)
       ELSE IF Len(node.points) = 0
            THEN [h EXCEPT !.mem[id].points = Append(node.points, point),
                           !.mem[id].activePoints = Append(node.activePoints, point),
                           !.mem[id].lat = Some(lat),
                           !.mem[id].lng = Some(lng)]
       ELSE LET dlat == Abs(node.lat[1] - lat)
                dlng == Abs(node.lng[1] - lng)
            IN IF dlat < Epsilon \/ dlng < Epsilon
               THEN [h EXCEPT !.mem[id].points = Append(node.points, point),
                              !.mem[id].activePoints = Append(node.activePoints, point)]
               ELSE addToChild(convertToInternal(h, id), id, point, lat, lng)

add_atMostEpsilon(h, id, point) ==
    LET node == h.mem[id]
        lat == latAcc(point)
        lng == lngAcc(point)
    IN IF h.thrown # "" THEN h
       ELSE IF ~node.leaf THEN addToChild(h, id, point, lat, lng)
       ELSE IF Len(node.points) = 0
            THEN [h EXCEPT !.mem[id].points = Append(node.points, point),
                           !.mem[id].activePoints = Append(node.activePoints, point),
                           !.mem[id].lat = Some(lat),
                           !.mem[id].lng = Some(lng)]
       ELSE LET dlat == Abs(node.lat[1] - lat)
                dlng == Abs(node.lng[1] - lng)
            IN IF dlat <= Epsilon /\ dlng <= Epsilon
               THEN [h EXCEPT !.mem[id].points = Append(node.points, point),
                              !.mem[id].activePoints = Append(node.activePoints, point)]
               ELSE addToChild(convertToInternal(h, id), id, point, lat, lng)

add(h, id, point) ==
    LET node == h.mem[id]
        lat == latAcc(point)
        lng == lngAcc(point)
    IN IF h.thrown # "" THEN h
       ELSE IF ~node.leaf THEN addToChild(h, id, point, lat, lng)
       ELSE IF Len(node.points) = 0
            THEN [h EXCEPT !.mem[id].points = Append(node.points, point),
                           !.mem[id].activePoints = Append(node.activePoints, point),
                           !.mem[id].lat = Some(lat),
                           !.mem[id].lng = Some(lng)]
       ELSE LET dlat == Abs(node.lat[1] - lat)
                dlng == Abs(node.lng[1] - lng)
            IN IF dlat < Epsilon /\ dlng < Epsilon
               THEN [h EXCEPT !.mem[id].points = Append(node.points, point),
                              !.mem[id].activePoints = Append(node.activePoints, point)]
               ELSE addToChild(convertToInternal(h, id), id, point, lat, lng)

(***************************************************************************)
(* QuadTreeNode.prototype.filter: a predicate is the set of points it      *)
(* accepts.                                                                *)
(***************************************************************************)
filterFunc(pred, d) == d \in pred

arrayFilter(s, pred) == SelectSeq(s, LAMBDA d : filterFunc(pred, d))

leafFilter_fromActive(node, pred) ==
    [node EXCEPT !.activePoints = arrayFilter(node.activePoints, pred)]

leafFilter(node, pred) ==
    [node EXCEPT !.activePoints = arrayFilter(node.points, pred)]

RECURSIVE filter(_, _, _), filterChildren(_, _, _, _)
filterChildren(m, id, i, pred) ==
    IF i > 3 THEN m
    ELSE IF m[id].nodes[i] = None THEN filterChildren(m, id, i + 1, pred)
    ELSE filterChildren(filter(m, m[id].nodes[i][1], pred), id, i + 1, pred)

filter(m, id, pred) ==
    IF m[id].leaf
    THEN computeGravityCenter([m EXCEPT ![id] = leafFilter(m[id], pred)], id, FALSE)
    ELSE computeGravityCenter(filterChildren(m, id, 0, pred), id, FALSE)

(***************************************************************************)
(* QuadTreeNode.prototype.getPoints                                        *)
(***************************************************************************)
RECURSIVE getPoints(_, _, _), getChildPoints(_, _, _, _)
getChildPoints(m, id, j, storage) ==
    IF j > 3 THEN storage
    ELSE IF m[id].nodes[j] # None /\ m[m[id].nodes[j][1]].active
         THEN getChildPoints(m, id, j + 1, getPoints(m, m[id].nodes[j][1], storage))
         ELSE getChildPoints(m, id, j + 1, storage)

getPoints(m, id, storage) ==
    IF ~m[id].active THEN storage
    ELSE IF m[id].leaf THEN storage \o m[id].activePoints
    ELSE getChildPoints(m, id, 0, storage)

(***************************************************************************)
(* TreeAggregate and QuadTreeNode.prototype.aggregate.  An aggregate is a  *)
(* record naming its stages; a state is Null or Some(value).               *)
(***************************************************************************)
Null == None

cutFilter_noRootExemption(agg, m, id) ==
    LET node == m[id]
    IN IF ~node.active THEN TRUE
       ELSE IF ~intersects(agg.bounds, node.bounds) THEN TRUE
       ELSE LET diffLng == Abs(node.bounds.east - node.bounds.west)
            IN diffLng * 2 < agg.maxLng

cutFilter_atMostHalf(agg, m, id) ==
    LET node == m[id]
    IN IF ~node.active THEN TRUE
       ELSE IF ~intersects(agg.bounds, node.bounds) THEN TRUE
       ELSE IF node.parent = None THEN FALSE
       ELSE LET diffLng == Abs(node.bounds.east - node.bounds.west)
            IN diffLng * 2 <= agg.maxLng

cutFilter(agg, m, id) ==
    LET node == m[id]
    IN IF ~node.active THEN TRUE
       ELSE IF ~intersects(agg.bounds, node.bounds) THEN TRUE
       ELSE IF node.parent = None THEN FALSE
       ELSE LET diffLng == Abs(node.bounds.east - node.bounds.west)
            IN diffLng * 2 < agg.maxLng

cutInit == Some(<<>>)

cutMerge_keepState(state, oState) == state

cutMerge_lastWins(state, oState) == oState

cutMerge(state, oState) == Some(state[1] \o oState[1])

cutFinalize_always(agg, state, m, id) ==
    IF contains(agg.bounds, m[id].center) THEN Some(Append(state[1], id)) ELSE state

cutFinalize_noCenterCheck(agg, state, m, id) ==
    IF Len(state[1]) = 0 THEN Some(Append(state[1], id)) ELSE state

cutFinalize(agg, state, m, id) ==
    IF Len(state[1]) = 0 /\ contains(agg.bounds, m[id].center)
    THEN Some(Append(state[1], id))
    ELSE state

RECURSIVE aggregateLog(_, _, _, _), aggregateChildrenLog(_, _, _, _, _, _),
          aggregateChildrenLog_missLast(_, _, _, _, _, _)
\* The stages of the aggregates the model folds with: the cut, a fold that
\* collects the nodes ("identity"), the same with a filter skipping the
\* nodes of agg.skip ("skip"), and the defaults of AggregateFactory with an
\* init that returns null ("nullInit"); any other kind has all the defaults.
aggFilter(agg, m, id) ==
    IF agg.kind = "cut" THEN cutFilter(agg, m, id)
    ELSE IF agg.kind = "skip" THEN id \in agg.skip
    ELSE FALSE

aggInitialize(agg) ==
    IF agg.kind = "cut" THEN cutInit
    ELSE IF agg.kind \in {"identity", "skip"} THEN Some(<<>>)
    ELSE IF agg.kind = "nullInit" THEN Null
    ELSE Some([kind |-> "object"])

aggAccumulate(agg, state, m, id) ==
    IF agg.kind \in {"identity", "skip"} THEN Some(Append(state[1], id)) ELSE state

aggMerge(agg, state, oState, i) ==
    IF agg.kind = "cut" THEN cutMerge(state, oState)
    ELSE IF agg.kind \in {"identity", "skip"} THEN Some(state[1] \o oState[1])
    ELSE state

aggFinalize(agg, state, m, id) ==
    IF agg.kind = "cut" THEN cutFinalize(agg, state, m, id) ELSE state

\* A call of a stage, as an observer of the fold sees it: the node it is
\* made for (None for the init of QuadTree.prototype.aggregate), the slot and
\* child state of a merge, the state passed in and the value returned.
StageCall(stage, node, slot, in, child, out) ==
    [stage |-> stage, node |-> node, slot |-> slot, in |-> in, child |-> child,
     out |-> out]

aggregateChildrenLog_missLast(agg, m, id, i, state, log) ==
    IF i > 2 THEN [state |-> state, log |-> log]
    ELSE IF m[id].nodes[i] = None
         THEN aggregateChildrenLog_missLast(agg, m, id, i + 1, state, log)
    ELSE LET r == aggregateLog(agg, m, m[id].nodes[i][1], log)
             childState == r.state
             merged == aggMerge(agg, state, childState, i)
         IN IF childState # Null
            THEN aggregateChildrenLog_missLast(agg, m, id, i + 1, merged,
                     Append(r.log, StageCall("merge", Some(id), i, state, childState, merged)))
            ELSE aggregateChildrenLog_missLast(agg, m, id, i + 1, state, r.log)

aggregateChildrenLog(agg, m, id, i, state, log) ==
    IF i > 3 THEN [state |-> state, log |-> log]
    ELSE IF m[id].nodes[i] = None
         THEN aggregateChildrenLog(agg, m, id, i + 1, state, log)
    ELSE LET r == aggregateLog(agg, m, m[id].nodes[i][1], log)
             childState == r.state
             merged == aggMerge(agg, state, childState, i)
         IN IF childState # Null
            THEN aggregateChildrenLog(agg, m, id, i + 1, merged,
                     Append(r.log, StageCall("merge", Some(id), i, state, childState, merged)))
            ELSE aggregateChildrenLog(agg, m, id, i + 1, state, r.log)

aggregateLog_skipSelfOnly(agg, m, id, log) ==
    LET skip == aggFilter(agg, m, id)
        l0 == Append(log, StageCall("filter", Some(id), -1, Null, Null, Some(skip)))
        s0 == aggInitialize(agg)
        l1 == Append(l0, StageCall("init", Some(id), -1, Null, Null, s0))
        s1 == aggAccumulate(agg, s0, m, id)
        l2 == Append(l1, StageCall("accumulate", Some(id), -1, s0, Null, s1))
        r == aggregateChildrenLog(agg, m, id, 0, s1, l2)
        s3 == aggFinalize(agg, r.state, m, id)
    IN IF ~skip
       THEN [state |-> s3,
             log |-> Append(r.log, StageCall("finalize", Some(id), -1, r.state, Null, s3))]
       ELSE [state |-> Null,
             log |-> aggregateChildrenLog(agg, m, id, 0, aggInitialize(agg), l0).log]

aggregateLog(agg, m, id, log) ==
    LET skip == aggFilter(agg, m, id)
        l0 == Append(log, StageCall("filter", Some(id), -1, Null, Null, Some(skip)))
        s0 == aggInitialize(agg)
        l1 == Append(l0, StageCall("init", Some(id), -1, Null, Null, s0))
        s1 == aggAccumulate(agg, s0, m, id)
        l2 == Append(l1, StageCall("accumulate", Some(id), -1, s0, Null, s1))
        r == aggregateChildrenLog(agg, m, id, 0, s1, l2)
        s3 == aggFinalize(agg, r.state, m, id)
    IN IF ~skip
       THEN [state |-> s3,
             log |-> Append(r.log, StageCall("finalize", Some(id), -1, r.state, Null, s3))]
       ELSE [state |-> Null, log |-> l0]

aggregateChildren(agg, m, id, i, state) ==
    aggregateChildrenLog(agg, m, id, i, state, <<>>).state

aggregate(agg, m, id) == aggregateLog(agg, m, id, <<>>).state

(***************************************************************************)
(* QuadTree: constructor, add, filter, aggregate, cut.                     *)
(***************************************************************************)
Root == <<>>

RECURSIVE addAll(_, _, _)
addAll(h, points, i) ==
    IF i > Len(points) THEN h ELSE addAll(add(h, Root, points[i]), points, i + 1)

QuadTree(bounds, points) ==
    LET h0 == [mem |-> QuadTreeNode(<<>>, Root, None, bounds, None), thrown |-> ""]
        h1 == addAll(h0, points, 1)
    IN IF h1.thrown # "" THEN h1
       ELSE [h1 EXCEPT !.mem = computeGravityCenter(h1.mem, Root, TRUE)]

treeAdd_noRecompute(m, point) == add([mem |-> m, thrown |-> ""], Root, point)

treeAdd(m, point) ==
    LET h1 == add([mem |-> m, thrown |-> ""], Root, point)
    IN IF h1.thrown # "" THEN h1
       ELSE [h1 EXCEPT !.mem = computeGravityCenter(h1.mem, Root, TRUE)]

treeFilter(m, pred) == filter(m, Root, pred)

treeAggregateLog_alwaysInit(m, agg) ==
    LET r == aggregateLog(agg, m, Root, <<>>)
        s0 == aggInitialize(agg)
    IN [state |-> s0,
        log |-> Append(r.log, StageCall("init", None, -1, Null, Null, s0))]

treeAggregateLog(m, agg) ==
    LET r == aggregateLog(agg, m, Root, <<>>)
        s0 == aggInitialize(agg)
    IN IF r.state = Null
       THEN [state |-> s0,
             log |-> Append(r.log, StageCall("init", None, -1, Null, Null, s0))]
       ELSE r

treeAggregate(m, agg) == treeAggregateLog(m, agg).state

cut(m, bounds, maxLng) ==
    treeAggregate(m, [kind |-> "cut", bounds |-> bounds, maxLng |-> maxLng])[1]

(***************************************************************************)
(* QuadTreeFactory: calculateBounds, squarifyBounds, _gen.                 *)
(***************************************************************************)
SetMin(S) == CHOOSE x \in S : \A y \in S : x <= y

SetMax(S) == CHOOSE x \in S : \A y \in S : x >= y

calculateBounds(points) ==
    LET lats == {latAcc(points[i]) : i \in 1..Len(points)}
        lngs == {lngAcc(points[i]) : i \in 1..Len(points)}
    IN latLngBounds(SetMin(lats), SetMin(lngs), SetMax(lats), SetMax(lngs))

squarifyBounds_asGiven(bounds) ==
    latLngBounds(bounds.south, bounds.west, bounds.north, bounds.east)

squarifyBounds(bounds) ==
    LET lat1 == bounds.south
        lng1 == bounds.west
        dlat == bounds.north - lat1
        dlng == bounds.east - lng1
    IN IF dlng > dlat
       THEN latLngBounds(lat1, lng1, lat1 + dlng, bounds.east)
       ELSE latLngBounds(lat1, lng1, bounds.north, lng1 + dlat)

NoBoundsError == "Must specify bounds of no points given for QuadTree initialization"

gen_defaultBounds(_bounds, points) ==
    QuadTree(squarifyBounds(IF _bounds # None THEN _bounds[1]
                            ELSE IF Len(points) = 0
                                 THEN latLngBounds(0, 0, 4 * Scale, 4 * Scale)
                                 ELSE calculateBounds(points)),
             points)

gen(_bounds, points) ==
    IF _bounds = None /\ Len(points) = 0
    THEN [mem |-> <<>>, thrown |-> NoBoundsError]
    ELSE QuadTree(squarifyBounds(IF _bounds = None THEN calculateBounds(points)
                                                    ELSE _bounds[1]),
                  points)

(***************************************************************************)
(* The inputs of the model.                                                *)
(***************************************************************************)
Box(s, w, n, e) == latLngBounds(s * Scale, w * Scale, n * Scale, e * Scale)

Configs ==
    { [bounds |-> Some(Box(0, 0, 4, 4)), points |-> <<>>],
      [bounds |-> Some(Box(0, 0, 2, 4)), points |-> <<Pt(1, 1)>>],
      [bounds |-> None, points |-> <<>>],
      [bounds |-> None, points |-> <<Pt(1, 1)>>],
      [bounds |-> None, points |-> <<Pt(0, 0), Pt(4, 4)>>],
      [bounds |-> None, points |-> <<Pt(0, 0), Pt(3, 1)>>] }

Predicates ==
    { Points, {}, {d \in Points : d.lat > 1 * Scale}, {Pt(0, 0), Pt(4, 4)} }

Viewports == { Box(5, 5, 6, 6), Box(1, 1, 2, 2) }

MaxLngs == { 0, Scale, 4 * Scale, 16 * Scale }

(***************************************************************************)
(* The state machine: one action per public operation of the tree.         *)
(***************************************************************************)
HasTree == Root \in DOMAIN mem

RECURSIVE storedPoints(_, _)
storedPoints(m, ids) ==
    IF ids = {} THEN 0
    ELSE LET id == CHOOSE x \in ids : TRUE
         IN Len(m[id].points) + storedPoints(m, ids \ {id})

\* The points handed to the tree so far, as a bag.
BagOf(s) == [p \in Points |-> Cardinality({i \in 1..Len(s) : s[i] = p})]

BagSize(B) == LET RECURSIVE sum(_)
                  sum(S) == IF S = {} THEN 0
                            ELSE LET p == CHOOSE x \in S : TRUE
                                 IN B[p] + sum(S \ {p})
              IN sum(DOMAIN B)

Aggregates ==
    { [kind |-> "identity", skip |-> {}],
      [kind |-> "skip", skip |-> {<<0>>}],
      [kind |-> "skip", skip |-> {Root}],
      [kind |-> "nullInit", skip |-> {}] }

\* QuadTree.prototype has no property `clear`: calling it raises a TypeError.
NotAFunction == "TypeError: tree.clear is not a function"

Init ==
    \E cfg \in Configs :
        LET h == gen(cfg.bounds, cfg.points)
        IN /\ mem = h.mem
           /\ thrown = h.thrown
           /\ op = "construct"
           /\ arg = cfg
           /\ ret = None
           /\ calls = <<>>
           /\ inserted = BagOf(IF h.thrown = "" THEN cfg.points ELSE <<>>)
           /\ filtered = FALSE

Add(point) ==
    /\ HasTree
    /\ storedPoints(mem, DOMAIN mem) < MaxPoints
    /\ LET h == treeAdd(mem, point)
       IN /\ h.thrown = ""
          /\ mem' = h.mem
    /\ op' = "add"
    /\ arg' = point
    /\ ret' = None
    /\ thrown' = ""
    /\ calls' = <<>>
    /\ inserted' = [inserted EXCEPT ![point] = @ + 1]
    /\ UNCHANGED filtered

Filter(pred) ==
    /\ HasTree
    /\ mem' = treeFilter(mem, pred)
    /\ op' = "filter"
    /\ arg' = pred
    /\ ret' = None
    /\ thrown' = ""
    /\ calls' = <<>>
    /\ filtered' = TRUE
    /\ UNCHANGED inserted

Cut_marksInactive(bounds, maxLng) ==
    /\ HasTree
    /\ LET r == treeAggregateLog(mem, [kind |-> "cut", bounds |-> bounds,
                                       maxLng |-> maxLng])
       IN /\ ret' = r.state[1]
          /\ calls' = r.log
    /\ op' = "cut"
    /\ arg' = [bounds |-> bounds, maxLng |-> maxLng]
    /\ thrown' = ""
    /\ mem' = [id \in DOMAIN mem |->
                  IF intersects(bounds, mem[id].bounds) THEN mem[id]
                  ELSE [mem[id] EXCEPT !.active = FALSE]]
    /\ UNCHANGED <<inserted, filtered>>

Cut(bounds, maxLng) ==
    /\ HasTree
    /\ LET r == treeAggregateLog(mem, [kind |-> "cut", bounds |-> bounds,
                                       maxLng |-> maxLng])
       IN /\ ret' = r.state[1]
          /\ calls' = r.log
    /\ op' = "cut"
    /\ arg' = [bounds |-> bounds, maxLng |-> maxLng]
    /\ thrown' = ""
    /\ UNCHANGED <<mem, inserted, filtered>>

Aggregate(agg) ==
    /\ HasTree
    /\ LET r == treeAggregateLog(mem, agg)
       IN /\ ret' = r.state
          /\ calls' = r.log
    /\ op' = "aggregate"
    /\ arg' = agg
    /\ thrown' = ""
    /\ UNCHANGED <<mem, inserted, filtered>>

GetPoints(id) ==
    /\ HasTree
    /\ ret' = getPoints(mem, id, <<>>)
    /\ op' = "getPoints"
    /\ arg' = id
    /\ thrown' = ""
    /\ calls' = <<>>
    /\ UNCHANGED <<mem, inserted, filtered>>

Clear ==
    /\ HasTree
    /\ thrown' = NotAFunction
    /\ op' = "clear"
    /\ arg' = None
    /\ ret' = None
    /\ calls' = <<>>
    /\ UNCHANGED <<mem, inserted, filtered>>

Next ==
    \/ \E point \in Points : Add(point)
    \/ \E pred \in Predicates : Filter(pred)
    \/ \E bounds \in Viewports \cup {mem[id].bounds : id \in DOMAIN mem \cap {Root}},
          maxLng \in MaxLngs : Cut(bounds, maxLng)
    \/ \E agg \in Aggregates : Aggregate(agg)
    \/ \E id \in DOMAIN mem : GetPoints(id)
    \/ Clear

Spec == Init /\ [][Next]_vars

(***************************************************************************)
(* Vocabulary of the properties.                                           *)
(***************************************************************************)
childrenOf(m, id) == {m[id].nodes[i][1] : i \in {j \in 0..3 : m[id].nodes[j] # None}}

RECURSIVE sumMass(_, _)
sumMass(m, ids) ==
    IF ids = {} THEN 0
    ELSE LET id == CHOOSE x \in ids : TRUE
         IN m[id].mass + sumMass(m, ids \ {id})

\* The active points of the leaves below id, collected without reading any
\* mass, center or active field.
RECURSIVE flatActive(_, _), flatActiveFrom(_, _, _)
flatActiveFrom(m, id, i) ==
    IF i > 3 THEN <<>>
    ELSE (IF m[id].nodes[i] = None THEN <<>> ELSE flatActive(m, m[id].nodes[i][1]))
         \o flatActiveFrom(m, id, i + 1)

flatActive(m, id) ==
    IF m[id].leaf THEN m[id].activePoints ELSE flatActiveFrom(m, id, 0)

flatMean(s) == latLng(Frac(SumLat(s), Len(s)), Frac(SumLng(s), Len(s)))

RECURSIVE isAncestor(_, _, _)
isAncestor(m, a, d) ==
    /\ m[d].parent # None
    /\ (m[d].parent[1] = a \/ isAncestor(m, a, m[d].parent[1]))

width(b) == Abs(b.east - b.west)

inRootBounds(m, d) ==
    contains(m[Root].bounds, latLng(Num(latAcc(d)), Num(lngAcc(d))))

allPointsInRootBounds(m) ==
    \A id \in DOMAIN m : \A i \in 1..Len(m[id].points) : inRootBounds(m, m[id].points[i])

activePointsInRootBounds(m) ==
    \A id \in DOMAIN m :
        \A i \in 1..Len(m[id].activePoints) : inRootBounds(m, m[id].activePoints[i])

Range(s) == {s[i] : i \in 1..Len(s)}

\* A node the cut visits: neither it nor any of its ancestors is skipped.
RECURSIVE visited(_, _, _)
visited(m, agg, id) ==
    /\ ~cutFilter(agg, m, id)
    /\ (m[id].parent = None \/ visited(m, agg, m[id].parent[1]))

cutArg == [kind |-> "cut", bounds |-> arg.bounds, maxLng |-> arg.maxLng]

C3_CutAncestorDisjoint ==
    op = "cut" =>
        \A i, j \in 1..Len(ret) :
            i # j => ret[i] # ret[j] /\ ~isAncestor(mem, ret[i], ret[j])

C3_Witness ==
    /\ op = "cut"
    /\ Len(ret) >= 2
    /\ \E i \in 1..Len(ret) : Len(ret[i]) >= 2

(***************************************************************************)
(* C4: every node returned by cut is at most sizeThreshold wide.           *)
(* The code returns wider nodes, so this is stated to be refuted.          *)
(***************************************************************************)
C4_CutNodesWithinThreshold ==
    op = "cut" => \A i \in 1..Len(ret) : width(mem[ret[i]].bounds) <= arg.maxLng

(***************************************************************************)
(* C5: every node returned by cut is active, has bounds intersecting the   *)
(* viewport and its center inside the viewport; a visited node with its    *)
(* center outside the viewport and no selected descendant is left out, and *)
(* nothing is thrown.                                                      *)
(***************************************************************************)
C5_CutNodesVisible ==
    op = "cut" =>
        /\ thrown = ""
        /\ \A i \in 1..Len(ret) :
              /\ mem[ret[i]].active /\ mem[ret[i]].mass > 0
              /\ intersects(arg.bounds, mem[ret[i]].bounds)
              /\ contains(arg.bounds, mem[ret[i]].center)
        /\ \A id \in DOMAIN mem :
              ( /\ visited(mem, cutArg, id)
                /\ ~contains(arg.bounds, mem[id].center)
                /\ \A r \in Range(ret) : ~isAncestor(mem, id, r) )
              => id \notin Range(ret)

C5_Witness ==
    /\ op = "cut"
    /\ Len(ret) >= 1
    /\ \E id \in DOMAIN mem :
          /\ visited(mem, cutArg, id)
          /\ ~contains(arg.bounds, mem[id].center)
          /\ \A r \in Range(ret) : ~isAncestor(mem, id, r)

(***************************************************************************)
(* C6: when all stored points lie inside the root bounds, the cut with the *)
(* root bounds as viewport and sizeThreshold 0 returns each leaf that      *)
(* holds an active point exactly once, and no internal node.               *)
(***************************************************************************)
C6_FinestCutIsActiveLeaves ==
    ( /\ op = "cut"
      /\ arg.bounds = mem[Root].bounds
      /\ arg.maxLng = 0
      /\ allPointsInRootBounds(mem) )
    => /\ Range(ret) = {id \in DOMAIN mem : mem[id].leaf /\ Len(mem[id].activePoints) > 0}
       /\ Cardinality(Range(ret)) = Len(ret)

C6_Witness ==
    /\ op = "cut"
    /\ arg.bounds = mem[Root].bounds
    /\ arg.maxLng = 0
    /\ allPointsInRootBounds(mem)
    /\ Len(ret) >= 2
    /\ \E id \in DOMAIN mem :
          mem[id].leaf /\ Len(mem[id].points) > 0 /\ Len(mem[id].activePoints) = 0

(***************************************************************************)
(* C7: with mass(root) > 0, the active points inside the root bounds, the  *)
(* root bounds as viewport and a sizeThreshold that makes the size rule    *)
(* skip every child of the root, cut returns the list holding the root     *)
(* alone, also after a filter has deactivated some of the leaves.          *)
(***************************************************************************)
C7_CoarsestCutIsRoot ==
    ( /\ op = "cut"
      /\ mem[Root].mass > 0
      /\ activePointsInRootBounds(mem)
      /\ arg.bounds = mem[Root].bounds
      /\ \A c \in childrenOf(mem, Root) : width(mem[c].bounds) * 2 < arg.maxLng )
    => ret = <<Root>>

C7_Witness ==
    /\ op = "cut"
    /\ mem[Root].mass > 0
    /\ activePointsInRootBounds(mem)
    /\ arg.bounds = mem[Root].bounds
    /\ \A c \in childrenOf(mem, Root) : width(mem[c].bounds) * 2 < arg.maxLng
    /\ ret = <<Root>>
    /\ \E a, b \in DOMAIN mem :
          /\ mem[a].leaf /\ Len(mem[a].points) > 0 /\ ~mem[a].active
          /\ mem[b].leaf /\ mem[b].active

(***************************************************************************)
(* C8: right after filter(p) the activePoints of every leaf are the stored *)
(* points that satisfy p, in insertion order; filter(p) then filter(q)     *)
(* leaves the tree as filter(q) alone does; an always-true predicate makes *)
(* every stored point active again.                                        *)
(***************************************************************************)
C8_FilterFromStoredPoints ==
    /\ op = "filter" =>
          \A id \in DOMAIN mem :
              mem[id].leaf =>
                  mem[id].activePoints = SelectSeq(mem[id].points, LAMBDA d : d \in arg)
    /\ (HasTree /\ op \in {"construct", "add", "filter"}) =>
          \A p, q \in Predicates :
              treeFilter(treeFilter(mem, p), q) = treeFilter(mem, q)
    /\ (HasTree /\ op \in {"construct", "add", "filter"}) =>
          LET m == treeFilter(mem, Points)
          IN \A id \in DOMAIN m : m[id].leaf => m[id].activePoints = m[id].points

C8_Witness ==
    /\ op = "filter"
    /\ \E id \in DOMAIN mem :
          /\ mem[id].leaf
          /\ Len(mem[id].points) >= 2
          /\ Len(mem[id].activePoints) = 1
          /\ mem[id].activePoints[1] = mem[id].points[2]

(***************************************************************************)
(* C9: applying the filter just applied once more, with the same           *)
(* predicate, changes no activePoints, mass, center or active flag.        *)
(***************************************************************************)
C9_FilterIdempotent == op = "filter" => treeFilter(mem, arg) = mem

C9_Witness ==
    /\ op = "filter"
    /\ mem[Root].mass > 0
    /\ ~mem[Root].leaf
    /\ \E id \in DOMAIN mem : Len(mem[id].points) > Len(mem[id].activePoints)

(***************************************************************************)
(* C10: every node, the root included, is active exactly when its mass is  *)
(* greater than 0.                                                         *)
(***************************************************************************)
C10_ActiveIffMass ==
    \A id \in DOMAIN mem : mem[id].active <=> mem[id].mass > 0

C10_Witness ==
    /\ HasTree
    /\ ~mem[Root].active
    /\ mem[Root].mass = 0
    /\ \E id \in DOMAIN mem : mem[id].active = FALSE /\ Len(mem[id].points) > 0

(***************************************************************************)
(* C11: while no filter has been applied, the bag of the points stored in  *)
(* the leaves is the bag of the points handed to the factory and to add,   *)
(* the mass of the root is their number, and getPoints on the root returns *)
(* exactly those points.                                                   *)
(***************************************************************************)
RECURSIVE flatPoints(_, _), flatPointsFrom(_, _, _)
flatPointsFrom(m, id, i) ==
    IF i > 3 THEN <<>>
    ELSE (IF m[id].nodes[i] = None THEN <<>> ELSE flatPoints(m, m[id].nodes[i][1]))
         \o flatPointsFrom(m, id, i + 1)

flatPoints(m, id) ==
    IF m[id].leaf THEN m[id].points ELSE flatPointsFrom(m, id, 0)

foldOp == op \in {"aggregate", "cut"}

foldResult == IF op = "cut" THEN Some(ret) ELSE ret

stagesReturnStates ==
    \A i \in 1..Len(calls) : calls[i].stage # "filter" => calls[i].out # Null

callsOf(stage, id) ==
    {i \in 1..Len(calls) : calls[i].stage = stage /\ calls[i].node = Some(id)}

rootSkipped == calls[1].out = Some(TRUE)

slotOf(m, id) ==
    CHOOSE i \in 0..3 : m[m[id].parent[1]].nodes[i] = Some(id)

skippedNodes ==
    {calls[i].node[1] : i \in {j \in 1..Len(calls) :
                                  calls[j].stage = "filter" /\ calls[j].out = Some(TRUE)}}

C13_FilteredSubtreeUntouched ==
    foldOp =>
        \A n \in skippedNodes :
            /\ \A j \in 1..Len(calls) :
                  calls[j].node = Some(n) => calls[j].stage = "filter"
            /\ \A d \in DOMAIN mem :
                  isAncestor(mem, n, d) =>
                      \A j \in 1..Len(calls) : calls[j].node # Some(d)
            /\ mem[n].parent # None =>
                  \A j \in 1..Len(calls) :
                      ~(/\ calls[j].stage = "merge"
                        /\ calls[j].node = mem[n].parent
                        /\ calls[j].slot = slotOf(mem, n))

C13_Witness ==
    /\ op = "aggregate" /\ arg.kind = "skip"
    /\ <<0>> \in skippedNodes
    /\ childrenOf(mem, <<0>>) # {}
    /\ \E j \in 1..Len(calls) : calls[j].stage = "merge" /\ calls[j].node = Some(Root)

(***************************************************************************)
(* C14: in a fold over a node the filter stage did not skip, whatever the  *)
(* stages return, merge is called exactly once for each present child the  *)
(* filter stage did not skip, with the value that child's finalize call    *)
(* returned and its slot index, never for an absent or skipped child, and  *)
(* in increasing slot order.                                               *)
(***************************************************************************)
foldedNodes ==
    {calls[i].node[1] : i \in {j \in 1..Len(calls) :
                                  calls[j].stage = "filter" /\ calls[j].out = Some(FALSE)}}

mergesOf(n, i) ==
    {j \in 1..Len(calls) :
        calls[j].stage = "merge" /\ calls[j].node = Some(n) /\ calls[j].slot = i}

mergeOncePerFoldedChild ==
    \A n \in foldedNodes :
        /\ \A i \in 0..3 :
              IF mem[n].nodes[i] # None /\ mem[n].nodes[i][1] \in foldedNodes
              THEN /\ Cardinality(mergesOf(n, i)) = 1
                   /\ \A j \in mergesOf(n, i) :
                         \E k \in callsOf("finalize", mem[n].nodes[i][1]) :
                             k < j /\ calls[j].child = calls[k].out
              ELSE mergesOf(n, i) = {}
        /\ \A j1, j2 \in 1..Len(calls) :
              (/\ j1 < j2
               /\ calls[j1].stage = "merge" /\ calls[j1].node = Some(n)
               /\ calls[j2].stage = "merge" /\ calls[j2].node = Some(n))
                  => calls[j1].slot < calls[j2].slot

C14_MergeOncePerChild == foldOp => mergeOncePerFoldedChild

(***************************************************************************)
(* C15: the fold whose filter is the default, whose accumulate appends the *)
(* node and whose merge concatenates returns a list holding every node of  *)
(* the tree, inactive ones included, exactly once; the activePoints of the *)
(* leaves in that list add up to mass(root).                               *)
(***************************************************************************)
RECURSIVE leafActiveCount(_, _)
leafActiveCount(m, s) ==
    IF s = <<>> THEN 0
    ELSE (IF m[Head(s)].leaf THEN Len(m[Head(s)].activePoints) ELSE 0)
         + leafActiveCount(m, Tail(s))

C15_IdentityFoldVisitsAll ==
    (op = "aggregate" /\ arg.kind = "identity") =>
        /\ ret # Null
        /\ Range(ret[1]) = DOMAIN mem
        /\ Len(ret[1]) = Cardinality(DOMAIN mem)
        /\ \A n \in DOMAIN mem : Cardinality(callsOf("accumulate", n)) = 1
        /\ leafActiveCount(mem, ret[1]) = Len(flatActive(mem, Root))
        /\ leafActiveCount(mem, ret[1]) = mem[Root].mass

C15_Witness ==
    /\ op = "aggregate" /\ arg.kind = "identity"
    /\ Len(ret[1]) >= 4
    /\ \E n \in DOMAIN mem : ~mem[n].active
    /\ mem[Root].mass >= 1
    /\ \E n \in DOMAIN mem : Len(n) = 2

(***************************************************************************)
(* C16: the factory called with no points and no configured bounds throws  *)
(* before any node is created (no tree exists afterwards); called with no  *)
(* points and explicit bounds it returns a tree whose root is an empty     *)
(* leaf with mass 0 and active = false.                                    *)
(***************************************************************************)
C16_EmptyConstruction ==
    (op = "construct" /\ arg.points = <<>>) =>
        IF arg.bounds = None
        THEN /\ thrown = NoBoundsError
             /\ DOMAIN mem = {}
             /\ BagSize(inserted) = 0
             /\ ~ENABLED Next
        ELSE /\ thrown = ""
             /\ DOMAIN mem = {Root}
             /\ mem[Root].leaf
             /\ mem[Root].points = <<>> /\ mem[Root].activePoints = <<>>
             /\ mem[Root].nodes = NoChildren
             /\ mem[Root].mass = 0
             /\ ~mem[Root].active
             /\ mem[Root].bounds = squarifyBounds(arg.bounds[1])

C16_Witness ==
    /\ op = "construct"
    /\ arg.points = <<>> /\ arg.bounds = None
    /\ thrown = NoBoundsError
    /\ ~HasTree

(***************************************************************************)
(* C17: clear is available on the tree the factory returns; after it the   *)
(* tree is a single empty root leaf with mass 0 and every cut is empty.    *)
(***************************************************************************)
C17_ClearResets ==
    op = "clear" =>
        /\ thrown = ""
        /\ DOMAIN mem = {Root}
        /\ mem[Root].leaf
        /\ mem[Root].points = <<>>
        /\ mem[Root].mass = 0
        /\ \A bounds \in Viewports, maxLng \in MaxLngs : cut(mem, bounds, maxLng) = <<>>

(***************************************************************************)
(* C18: every add runs to completion: from every tree the program reaches, *)
(* the insertion of any point ends without exhausting the call stack.      *)
(***************************************************************************)
C18_AddTerminates ==
    HasTree => \A point \in Points : treeAdd(mem, point).thrown # StackOverflow

sizeRuleCalls ==
    {i \in 1..Len(calls) :
        /\ calls[i].stage = "filter"
        /\ mem[calls[i].node[1]].active
        /\ intersects(arg.bounds, mem[calls[i].node[1]].bounds)}

C20_SkipAtQuarterThreshold ==
    op = "cut" =>
        \A i \in sizeRuleCalls :
            LET n == calls[i].node[1]
            IN IF n = Root THEN calls[i].out = Some(FALSE)
               ELSE calls[i].out = Some(width(mem[n].bounds) * 4 <= arg.maxLng)

(***************************************************************************)
(* C20 (amended): such a node is skipped exactly when its width is         *)
(* strictly less than half of maxLng; a node whose width is exactly half   *)
(* of maxLng is folded; the root is never skipped by the size rule.        *)
(***************************************************************************)
C20_SkipBelowHalfThreshold ==
    op = "cut" =>
        \A i \in sizeRuleCalls :
            LET n == calls[i].node[1]
            IN IF n = Root THEN calls[i].out = Some(FALSE)
               ELSE calls[i].out = Some(width(mem[n].bounds) * 2 < arg.maxLng)

C20_Witness ==
    /\ op = "cut"
    /\ \E i \in sizeRuleCalls :
          /\ calls[i].node # Some(Root)
          /\ width(mem[calls[i].node[1]].bounds) * 2 = arg.maxLng
          /\ arg.maxLng > 0
          /\ calls[i].out = Some(FALSE)
    /\ \E i \in sizeRuleCalls :
          /\ calls[i].node # Some(Root)
          /\ calls[i].out = Some(TRUE)

(***************************************************************************)
(* C21: when an add converts a leaf, each point the leaf stored ends up    *)
(* below the child quadrant that the routing selects for the point's own   *)
(* coordinates, inside the bounds of the leaf that holds it.               *)
(***************************************************************************)
isPrefix(a, b) == Len(a) <= Len(b) /\ SubSeq(b, 1, Len(a)) = a

convertedLeaves ==
    {id \in DOMAIN mem : mem[id].leaf /\ Len(mem[id].points) > 0 /\ ~mem'[id].leaf}

insideBounds(b, d) ==
    /\ b.south <= latAcc(d) /\ latAcc(d) <= b.north
    /\ b.west <= lngAcc(d) /\ lngAcc(d) <= b.east

C21_ConvertRoutesByOwnCoordinates ==
    [][op' = "add" =>
          \A id \in convertedLeaves :
              \A i \in 1..Len(mem[id].points) :
                  LET d == mem[id].points[i]
                      c == Append(id, childIndex(mem[id].bounds, latAcc(d), lngAcc(d)))
                  IN \E l \in DOMAIN mem' :
                        /\ isPrefix(c, l)
                        /\ mem'[l].leaf
                        /\ d \in Range(mem'[l].points)
                        /\ insideBounds(mem[id].bounds, d)
                               => insideBounds(mem'[l].bounds, d)]_vars

(***************************************************************************)
(* C21 (amended): when an add converts a leaf, all its stored points move  *)
(* together, in order, below the one child quadrant that the routing       *)
(* selects for the coordinates of the leaf's reference point, into a leaf  *)
(* with the same reference point; the converted node keeps no point.       *)
(***************************************************************************)
C21_ConvertRoutesByReference ==
    [][op' = "add" =>
          \A id \in convertedLeaves :
              LET c == Append(id, childIndex(mem[id].bounds, mem[id].lat[1], mem[id].lng[1]))
              IN /\ mem'[id].points = <<>>
                 /\ \E l \in DOMAIN mem' :
                       /\ isPrefix(c, l)
                       /\ mem'[l].leaf
                       /\ mem'[l].points = mem[id].points
                       /\ mem'[l].lat = mem[id].lat
                       /\ mem'[l].lng = mem[id].lng]_vars

C21_Witness ==
    /\ op = "add"
    /\ \E l \in DOMAIN mem :
          /\ mem[l].leaf
          /\ mem[l].parent # None
          /\ \E i \in 1..Len(mem[l].points) :
                /\ childIndex(mem[mem[l].parent[1]].bounds,
                              latAcc(mem[l].points[i]), lngAcc(mem[l].points[i]))
                       # l[Len(l)]
                /\ insideBounds(mem[Root].bounds, mem[l].points[i])
                /\ ~insideBounds(mem[l].bounds, mem[l].points[i])

(***************************************************************************)
(* C22: any two stored points that differ by less than epsilon on both     *)
(* axes are held in the same leaf.                                         *)
(***************************************************************************)
withinEpsilon(lat1, lng1, lat2, lng2) ==
    Abs(lat1 - lat2) < Epsilon /\ Abs(lng1 - lng2) < Epsilon

C22_CloseStoredPointsShareLeaf ==
    \A l1, l2 \in DOMAIN mem :
        \A i \in 1..Len(mem[l1].points), j \in 1..Len(mem[l2].points) :
            withinEpsilon(latAcc(mem[l1].points[i]), lngAcc(mem[l1].points[i]),
                          latAcc(mem[l2].points[j]), lngAcc(mem[l2].points[j]))
                => l1 = l2

(***************************************************************************)
(* C22 (amended): an inserted point joins an existing cluster exactly when *)
(* the routing by quadrant midpoints leads it to that cluster's leaf and   *)
(* it differs from the leaf's reference point by less than epsilon on both *)
(* axes; no other stored point is compared with it.                        *)
(***************************************************************************)
RECURSIVE route(_, _, _)
route(m, id, d) ==
    IF m[id].leaf THEN Some(id)
    ELSE LET i == childIndex(m[id].bounds, latAcc(d), lngAcc(d))
         IN IF m[id].nodes[i] = None THEN None ELSE route(m, m[id].nodes[i][1], d)

joinsCluster(l) ==
    /\ l \in DOMAIN mem'
    /\ mem'[l].leaf
    /\ Len(mem[l].points) > 0
    /\ mem'[l].points = Append(mem[l].points, arg')

C22_JoinsRoutedClusterWithinEpsilon ==
    [][op' = "add" =>
          \A l \in DOMAIN mem :
              joinsCluster(l) <=>
                  /\ route(mem, Root, arg') = Some(l)
                  /\ Len(mem[l].points) > 0
                  /\ withinEpsilon(mem[l].lat[1], mem[l].lng[1],
                                   latAcc(arg'), lngAcc(arg'))]_vars

C22_Witness ==
    /\ op = "add"
    /\ \E l1, l2 \in DOMAIN mem :
          /\ l1 # l2 /\ l1 # Root
          /\ Len(mem[l1].points) >= 2
          /\ mem[l1].points[Len(mem[l1].points)] = arg
          /\ \E j \in 1..Len(mem[l2].points) :
                withinEpsilon(latAcc(arg), lngAcc(arg),
                              latAcc(mem[l2].points[j]), lngAcc(mem[l2].points[j]))

(***************************************************************************)
(* C23: the reference point of a leaf is the first point of its cluster,   *)
(* also after conversions, and every point stored in the leaf differs from *)
(* it by strictly less than epsilon on each axis; a point at exactly       *)
(* epsilon on some axis is not appended.                                   *)
(***************************************************************************)
C23_ClusterWithinEpsilonOfReference ==
    \A id \in DOMAIN mem :
        IF mem[id].leaf /\ Len(mem[id].points) > 0
        THEN /\ mem[id].lat = Some(latAcc(mem[id].points[1]))
             /\ mem[id].lng = Some(lngAcc(mem[id].points[1]))
             /\ \A i \in 1..Len(mem[id].points) :
                   /\ Abs(latAcc(mem[id].points[i]) - mem[id].lat[1]) < Epsilon
                   /\ Abs(lngAcc(mem[id].points[i]) - mem[id].lng[1]) < Epsilon
        ELSE mem[id].lat = None /\ mem[id].lng = None

C23_Witness ==
    /\ op = "add"
    /\ \E l1, l2 \in DOMAIN mem :
          /\ l1 # l2 /\ l1 # Root
          /\ mem[l1].leaf /\ Len(mem[l1].points) >= 2
          /\ mem[l2].leaf /\ mem[l2].points = <<arg>>
          /\ Abs(latAcc(arg) - mem[l1].lat[1]) = Epsilon

(***************************************************************************)
(* C24: a point is routed at every internal node to the slot               *)
(* 2*(lat > midLat) + (lng > midLng) of the node's bounds; a coordinate    *)
(* equal to the midpoint selects the lower/left half, so a point at the    *)
(* centre of a node goes to slot 0.                                        *)
(***************************************************************************)
slotOfCoordinates(b, lat, lng) ==
    2 * (IF 2 * lat > b.south + b.north THEN 1 ELSE 0)
      + (IF 2 * lng > b.west + b.east THEN 1 ELSE 0)

routedBy(m, l, lat, lng) ==
    \A k \in 1..Len(l) :
        l[k] = slotOfCoordinates(m[SubSeq(l, 1, k - 1)].bounds, lat, lng)

C24_RoutingBySlotFormula ==
    /\ op = "add" =>
          \E l \in DOMAIN mem :
              /\ mem[l].leaf /\ Len(mem[l].points) > 0
              /\ mem[l].points[Len(mem[l].points)] = arg
              /\ routedBy(mem, l, latAcc(arg), lngAcc(arg))
    /\ \A l \in DOMAIN mem :
          (mem[l].leaf /\ Len(mem[l].points) > 0)
              => routedBy(mem, l, mem[l].lat[1], mem[l].lng[1])

C24_Witness ==
    /\ op = "add"
    /\ ~mem[Root].leaf
    /\ 2 * latAcc(arg) = mem[Root].bounds.south + mem[Root].bounds.north
    /\ 2 * lngAcc(arg) = mem[Root].bounds.west + mem[Root].bounds.east
    /\ mem[Root].bounds.north > mem[Root].bounds.south
    /\ \E l \in DOMAIN mem :
          /\ mem[l].leaf /\ Len(l) >= 1 /\ l[1] = 0
          /\ mem[l].points[Len(mem[l].points)] = arg

(***************************************************************************)
(* C25: the root bounds are a square that keeps the south-west corner of   *)
(* the supplied or computed envelope and contains the envelope; the bounds *)
(* of the child in slot i are quadrant i of its parent's bounds split at   *)
(* the midpoint, so a node at depth d is a square whose side is the root's *)
(* side divided by 2^d.                                                    *)
(***************************************************************************)
height(b) == b.north - b.south

isQuadrant(c, b, i) ==
    /\ IF i \in {2, 3} THEN 2 * c.south = b.south + b.north /\ c.north = b.north
                       ELSE c.south = b.south /\ 2 * c.north = b.south + b.north
    /\ IF i \in {1, 3} THEN 2 * c.west = b.west + b.east /\ c.east = b.east
                       ELSE c.west = b.west /\ 2 * c.east = b.west + b.east

C25_SquareBoundsHalvePerLevel ==
    HasTree =>
        /\ height(mem[Root].bounds) = width(mem[Root].bounds)
        /\ op = "construct" =>
              LET envelope == IF arg.bounds = None THEN calculateBounds(arg.points)
                                                   ELSE arg.bounds[1]
              IN /\ mem[Root].bounds.south = envelope.south
                 /\ mem[Root].bounds.west = envelope.west
                 /\ mem[Root].bounds.north >= envelope.north
                 /\ mem[Root].bounds.east >= envelope.east
        /\ \A id \in DOMAIN mem :
              /\ height(mem[id].bounds) = width(mem[id].bounds)
              /\ width(mem[id].bounds) * Pow2(Len(id)) = width(mem[Root].bounds)
              /\ \A i \in 0..3 :
                    mem[id].nodes[i] # None =>
                        /\ mem[id].nodes[i][1] = Append(id, i)
                        /\ isQuadrant(mem[Append(id, i)].bounds, mem[id].bounds, i)

C25_Witness ==
    /\ op = "construct"
    /\ HasTree
    /\ arg.bounds = None
    /\ height(calculateBounds(arg.points)) > width(calculateBounds(arg.points))
    /\ Cardinality(childrenOf(mem, Root)) = 2

(***************************************************************************)
(* C26: for each node the filter stage did not skip, a fold calls          *)
(* filter, then init once, then accumulate once before any child is        *)
(* visited, then for each present child in slot order the child's whole    *)
(* fold followed immediately by its merge, then finalize once after the    *)
(* last merge; each stage receives the state the previous one returned.    *)
(***************************************************************************)
callOf(stage, n) == CHOOSE i \in callsOf(stage, n) : TRUE

ownCalls(n) ==
    {i \in 1..Len(calls) : calls[i].node = Some(n) /\ calls[i].stage # "filter"}

stagesInOrder(n) ==
    LET f == callOf("filter", n)
        z == callOf("finalize", n)
    IN /\ Cardinality(callsOf("filter", n)) = 1
       /\ Cardinality(callsOf("init", n)) = 1
       /\ Cardinality(callsOf("accumulate", n)) = 1
       /\ Cardinality(callsOf("finalize", n)) = 1
       /\ callOf("init", n) = f + 1
       /\ callOf("accumulate", n) = f + 2
       /\ \A i \in ownCalls(n) : i <= z
       /\ \A i \in ownCalls(n) : (f + 2 < i /\ i < z) => calls[i].stage = "merge"
       /\ \A i, j \in ownCalls(n) :
             (i < j /\ \A k \in ownCalls(n) : ~(i < k /\ k < j))
                 => calls[j].in = calls[i].out

childFoldThenMerge(n, i) ==
    LET c == mem[n].nodes[i][1]
        f == callOf("filter", c)
        end == IF c \in foldedNodes THEN callOf("finalize", c) ELSE f
    IN /\ Cardinality(callsOf("filter", c)) = 1
       /\ callOf("accumulate", n) < f /\ end < callOf("finalize", n)
       /\ \A k \in 1..Len(calls) :
             (calls[k].node # None /\ isPrefix(c, calls[k].node[1]))
                 <=> (f <= k /\ k <= end)
       /\ c \in foldedNodes =>
             /\ calls[end + 1].stage = "merge"
             /\ calls[end + 1].node = Some(n)
             /\ calls[end + 1].slot = i
             /\ calls[end + 1].child = calls[end].out
       /\ \A j \in 0..3 :
             (j < i /\ mem[n].nodes[j] # None)
                 => callOf("filter", mem[n].nodes[j][1]) < f

foldStagesInOrder ==
    \A n \in foldedNodes :
        /\ stagesInOrder(n)
        /\ \A i \in 0..3 : mem[n].nodes[i] # None => childFoldThenMerge(n, i)

C26_FoldStageOrder == foldOp => foldStagesInOrder

(***************************************************************************)
(* C27: no construction, add or filter makes convertToInternal throw its   *)
(* 'already internal' or 'no points' error; called directly on an internal *)
(* node or on an empty leaf it throws before changing any field.           *)
(***************************************************************************)
ConversionErrors ==
    {"Node is already internal", "Converting node with no points to internal"}

C27_ConversionErrorsUnreachable ==
    /\ thrown \notin ConversionErrors
    /\ (HasTree /\ op \in {"construct", "add", "filter"}) =>
          /\ \A point \in Points : treeAdd(mem, point).thrown \notin ConversionErrors
          /\ \A id \in DOMAIN mem :
                LET h == convertToInternal([mem |-> mem, thrown |-> ""], id)
                IN /\ ~mem[id].leaf =>
                          h.thrown = "Node is already internal" /\ h.mem = mem
                   /\ (mem[id].leaf /\ Len(mem[id].points) = 0) =>
                          /\ h.thrown = "Converting node with no points to internal"
                          /\ h.mem = mem

C27_Witness ==
    /\ op = "add"
    /\ thrown = ""
    /\ \E id \in DOMAIN mem :
          /\ Len(id) = 1 /\ ~mem[id].leaf
          /\ \E c \in childrenOf(mem, id) : arg \in Range(mem[c].points)

(***************************************************************************)
(* C28: in every tree reached by construction, add and filter a leaf has   *)
(* no children, an internal node has no points, no activePoints and at     *)
(* least one child, the parent reference of every child is the node that   *)
(* holds it, and an internal node never becomes a leaf again.              *)
(***************************************************************************)
wellFormedNodes ==
    \A id \in DOMAIN mem :
        /\ mem[id].leaf => mem[id].nodes = NoChildren
        /\ ~mem[id].leaf =>
              /\ mem[id].points = <<>> /\ mem[id].activePoints = <<>>
              /\ childrenOf(mem, id) # {}
        /\ \A i \in 0..3 :
              mem[id].nodes[i] # None =>
                  /\ mem[id].nodes[i][1] \in DOMAIN mem
                  /\ mem[mem[id].nodes[i][1]].parent = Some(id)
        /\ id # Root =>
              /\ mem[id].parent # None
              /\ mem[id].parent[1] \in DOMAIN mem
              /\ \E i \in 0..3 : mem[mem[id].parent[1]].nodes[i] = Some(id)

C29_AddKeepsActiveStatus ==
    [][op' = "add" =>
          /\ mem'[Root].mass = mem[Root].mass + 1
          /\ BagOf(flatActive(mem', Root))
                 = [BagOf(flatActive(mem, Root)) EXCEPT ![arg'] = @ + 1]]_vars

(***************************************************************************)
(* C30: when all stored points lie inside the root bounds and the viewport *)
(* contains the root bounds, for every sizeThreshold the nodes cut returns *)
(* cover every active point exactly once: their masses add up to           *)
(* mass(root) and their getPoints together are a permutation of the        *)
(* root's getPoints.                                                       *)
(***************************************************************************)
containsBounds(b, o) ==
    /\ b.south <= o.south /\ o.north <= b.north
    /\ b.west <= o.west /\ o.east <= b.east

RECURSIVE getPointsOfAll(_, _)
getPointsOfAll(m, ids) ==
    IF ids = <<>> THEN <<>>
    ELSE getPoints(m, Head(ids), <<>>) \o getPointsOfAll(m, Tail(ids))

C30_CutCoversActivePointsOnce ==
    ( /\ op = "cut"
      /\ allPointsInRootBounds(mem)
      /\ containsBounds(arg.bounds, mem[Root].bounds) )
    => /\ Cardinality(Range(ret)) = Len(ret)
       /\ sumMass(mem, Range(ret)) = mem[Root].mass
       /\ BagOf(getPointsOfAll(mem, ret)) = BagOf(getPoints(mem, Root, <<>>))

C30_Witness ==
    /\ op = "cut"
    /\ allPointsInRootBounds(mem)
    /\ containsBounds(arg.bounds, mem[Root].bounds)
    /\ Len(ret) >= 2
    /\ \E i \in 1..Len(ret) : ~mem[ret[i]].leaf /\ ret[i] # Root /\ mem[ret[i]].mass >= 2

====
